---- MODULE Spec2Model ----
(***************************************************************************)
(* pkg/cmd/extension/http.go: five helpers that each build one GET         *)
(* request, perform it, inspect the status code and then either return,    *)
(* decode the body, or stream it into a file.                              *)
(*                                                                         *)
(* A call is modelled step by step (pc): NewRequest, Do, the status check  *)
(* of the function that is running, then OpenFile/Copy or ReadAll/         *)
(* Unmarshal.  Every return runs the deferred calls registered so far.     *)
(* The server (status, body), the transport and the filesystem are the     *)
(* environment and are chosen nondeterministically.                        *)
(***************************************************************************)
EXTENDS Integers, Sequences, FiniteSets, TLC

VARIABLES
    op,        \* the function being executed
    arg,       \* its arguments: [urlOK, destPath]
    pc,        \* position inside the function
    requests,  \* calls of httpClient.Do made by this invocation
    resp,      \* the *http.Response Do yielded: [has, StatusCode, Body]
    deferred,  \* stack of deferred calls of this invocation
    closes,    \* calls of resp.Body.Close made by this invocation
    f,         \* the *os.File of downloadAsset: [open, path, off]
    buf,       \* result of ioutil.ReadAll: [set, b]
    fs,        \* the filesystem: path -> [exists, data]
    fs0,       \* the filesystem when the invocation started
    ret        \* what the function returned: [set, val, err]

vars == <<op, arg, pc, requests, resp, deferred, closes, f, buf, fs, fs0, ret>>

-----------------------------------------------------------------------------
(* Bounds of the model *)

\* most assets in a release the server describes
MaxAssets == 1
\* longest asset content the server sends for a download
MaxAssetLen == 2

-----------------------------------------------------------------------------
(* Data *)

Ops == {"hasScript", "downloadAsset", "fetchLatestRelease",
        "fetchReleaseFromTag", "fetchCommitSHA"}

\* files that can exist, and a destination in a directory that does not
Paths == {"p1", "p2"}
BadPath == "nodir/p"
DestPaths == Paths \cup {BadPath}

\* 101 is the one 1xx status net/http hands to the caller; 299/300 are the
\* two sides of the comparison "> 299".
Statuses == {101, 200, 299, 300, 404, 422, 500}

Is2xx(s) == 200 <= s /\ s <= 299

\* A body is a sequence of bytes; a byte is written as a short string.  The
\* bytes of a JSON document are its tokens.
WS == {"\n"}
Punct == {"{", "}", "[", "]"}
\* bytes that are plain text, no JSON token
Raw == {"c0ffee"}
IsStr(t) == t \notin (Punct \cup WS \cup Raw)

RECURSIVE SeqsUpTo(_, _)
SeqsUpTo(S, n) ==
    IF n = 0 THEN {<<>>}
    ELSE LET shorter == SeqsUpTo(S, n - 1)
         IN  shorter \cup {Append(s, x) : s \in shorter, x \in S}

IsPrefix(p, s) == Len(p) <= Len(s) /\ SubSeq(s, 1, Len(p)) = p

\* type releaseAsset struct { Name string; APIURL string `json:"url"` }
releaseAsset == [Name : {"a", "b"}, APIURL : {"u"}]

\* type release struct { Tag string `json:"tag_name"`; Assets []releaseAsset }
\* nil = TRUE stands for the nil *release.
release == [nil : {FALSE}, Tag : {"v1", "v2"}, Assets : SeqsUpTo(releaseAsset, MaxAssets)]

NilRelease == [nil |-> TRUE, Tag |-> "", Assets |-> <<>>]

\* errors: [kind, StatusCode, Message]
MkErr(k) == [kind |-> k, StatusCode |-> 0, Message |-> ""]
Nil == MkErr("nil")
releaseNotFoundErr == MkErr("release not found")
commitNotFoundErr == MkErr("commit not found")

-----------------------------------------------------------------------------
(* JSON: a value is [t, s, keys, kids]; t is "str", "arr" or "obj" *)

JStr(x) == [t |-> "str", s |-> x, keys |-> <<>>, kids |-> <<>>]
JArr(vs) == [t |-> "arr", s |-> "", keys |-> <<>>, kids |-> vs]
JObj(ks, vs) == [t |-> "obj", s |-> "", keys |-> ks, kids |-> vs]

ParseFail == [ok |-> FALSE, v |-> JStr(""), rest |-> <<>>]
ParseOK(x, r) == [ok |-> TRUE, v |-> x, rest |-> r]

RECURSIVE ParseValue(_), ParseElems(_, _), ParseMembers(_, _, _)
\* one JSON value at the head of toks
ParseValue(toks) ==
    IF toks = <<>> THEN ParseFail
    ELSE IF Head(toks) = "{" THEN ParseMembers(Tail(toks), <<>>, <<>>)
    ELSE IF Head(toks) = "[" THEN ParseElems(Tail(toks), <<>>)
    ELSE IF IsStr(Head(toks)) THEN ParseOK(JStr(Head(toks)), Tail(toks))
    ELSE ParseFail

ParseElems(toks, acc) ==
    IF toks = <<>> THEN ParseFail
    ELSE IF Head(toks) = "]" THEN ParseOK(JArr(acc), Tail(toks))
    ELSE LET e == ParseValue(toks)
         IN  IF e.ok THEN ParseElems(e.rest, Append(acc, e.v)) ELSE ParseFail

ParseMembers(toks, ks, vs) ==
    IF toks = <<>> THEN ParseFail
    ELSE IF Head(toks) = "}" THEN ParseOK(JObj(ks, vs), Tail(toks))
    ELSE IF IsStr(Head(toks))
         THEN LET e == ParseValue(Tail(toks))
              IN  IF e.ok
                  THEN ParseMembers(e.rest, Append(ks, Head(toks)), Append(vs, e.v))
                  ELSE ParseFail
    ELSE ParseFail

\* the whole input is one JSON value, whitespace aside
ParseDoc(b) ==
    LET p == ParseValue(SelectSeq(b, LAMBDA t : t \notin WS))
    IN  IF p.ok /\ p.rest = <<>> THEN p ELSE ParseFail

\* index of the last member of object o named k, 0 when there is none
Member(o, k) ==
    LET I == {i \in 1..Len(o.keys) : o.keys[i] = k}
    IN  IF I = {} THEN 0 ELSE CHOOSE i \in I : \A j \in I : j <= i

HasStr(o, k) == Member(o, k) # 0 /\ o.kids[Member(o, k)].t = "str"
StrOf(o, k) == IF Member(o, k) = 0 THEN "" ELSE o.kids[Member(o, k)].s

\* a member the struct names must have the field's type when present
FieldOK(o, k, t) == Member(o, k) = 0 \/ o.kids[Member(o, k)].t = t

AssetOK(v) == v.t = "obj" /\ FieldOK(v, "Name", "str") /\ FieldOK(v, "url", "str")
ToAsset(v) == [Name |-> StrOf(v, "Name"), APIURL |-> StrOf(v, "url")]

AssetsOf(o) ==
    IF Member(o, "Assets") = 0 THEN <<>>
    ELSE LET a == o.kids[Member(o, "Assets")].kids
         IN  [i \in 1..Len(a) |-> ToAsset(a[i])]

ReleaseOK(o) ==
    /\ o.t = "obj"
    /\ FieldOK(o, "tag_name", "str")
    /\ FieldOK(o, "Assets", "arr")
    /\ Member(o, "Assets") # 0 =>
          \A i \in 1..Len(o.kids[Member(o, "Assets")].kids) :
              AssetOK(o.kids[Member(o, "Assets")].kids[i])

\* var r release; err = json.Unmarshal(b, &r)
Unmarshal(b) ==
    LET p == ParseDoc(b)
    IN  IF ~p.ok THEN [err |-> MkErr("SyntaxError"), r |-> NilRelease]
        ELSE IF ~ReleaseOK(p.v)
             THEN [err |-> MkErr("UnmarshalTypeError"), r |-> NilRelease]
        ELSE [err |-> Nil,
              r   |-> [nil |-> FALSE, Tag |-> StrOf(p.v, "tag_name"),
                       Assets |-> AssetsOf(p.v)]]

\* api.HandleHTTPError(resp): the status code and the message of the body
HandleHTTPError(r) ==
    LET p == ParseDoc(r.Body)
    IN  [kind |-> "HTTPError", StatusCode |-> r.StatusCode,
         Message |-> IF p.ok /\ p.v.t = "obj" /\ HasStr(p.v, "message")
                     THEN StrOf(p.v, "message") ELSE ""]

-----------------------------------------------------------------------------
(* What the server sends *)

RECURSIVE EncodeAssets(_)
EncodeAssets(xs) ==
    IF xs = <<>> THEN <<>>
    ELSE <<"{", "Name", Head(xs).Name, "url", Head(xs).APIURL, "}">>
         \o EncodeAssets(Tail(xs))

\* the release document of the API: {"tag_name": ..., "Assets": [...]}
Encode(r) ==
    <<"{", "tag_name", r.Tag, "Assets", "[">> \o EncodeAssets(r.Assets) \o <<"]", "}">>

MessageBody == <<"{", "message", "oops", "}">>

\* documents that are not a release: cut short, followed by more, not JSON,
\* JSON of another shape
Sample == Encode([nil |-> FALSE, Tag |-> "v1",
                  Assets |-> <<[Name |-> "a", APIURL |-> "u"]>>])

OtherBodies ==
    {SubSeq(Sample, 1, n) : n \in {1, 5, Len(Sample) - 1}}
        \cup {Sample \o <<"}">>, Sample \o <<"\n">>}
        \cup {<<>>, <<"}">>, <<"[", "]">>, <<"{", "tag_name", "[", "]", "}">>,
              <<"{", "x", "y", "tag_name", "v1", "}">>,
              <<"c0ffee">>, <<"c0ffee", "\n">>, <<"\n", "c0ffee">>, MessageBody}

TextBodies == {Encode(r) : r \in release} \cup OtherBodies

AssetBodies == SeqsUpTo({"x", "y"}, MaxAssetLen)

Bodies(o) == IF o = "downloadAsset" THEN AssetBodies ELSE TextBodies

-----------------------------------------------------------------------------
(* State *)

ZeroVal == [hs |-> FALSE, r |-> NilRelease, sha |-> <<>>]
NoResp == [has |-> FALSE, StatusCode |-> 0, Body |-> <<>>]
NoFile == [open |-> FALSE, path |-> "", off |-> 0]
NoBuf == [set |-> FALSE, b |-> <<>>]
NoRet == [set |-> FALSE, val |-> ZeroVal, err |-> Nil]
Absent == [exists |-> FALSE, data |-> <<>>]

Init ==
    /\ op = "none"
    /\ arg = [urlOK |-> TRUE, destPath |-> ""]
    /\ pc = "idle"
    /\ requests = 0
    /\ resp = NoResp
    /\ deferred = <<>>
    /\ closes = 0
    /\ f = NoFile
    /\ buf = NoBuf
    /\ fs = [p \in Paths |-> Absent]
    /\ fs0 = [p \in Paths |-> Absent]
    /\ ret = NoRet

\* the deferred calls run when the function returns
Deferred(d, c) == Cardinality({i \in DOMAIN d : d[i] = c})

\* return v, e: the deferred calls run, then the caller has the result
Return(v, e) ==
    /\ ret' = [set |-> TRUE, val |-> v, err |-> e]
    /\ closes' = closes + Deferred(deferred, "resp.Body.Close")
    /\ f' = IF Deferred(deferred, "f.Close") > 0 THEN [f EXCEPT !.open = FALSE] ELSE f
    /\ deferred' = <<>>
    /\ pc' = "done"

\* the caller invokes one of the five functions
Call ==
    /\ pc \in {"idle", "done"}
    /\ \E o \in Ops, u \in BOOLEAN, d \in DestPaths :
          /\ op' = o
          /\ arg' = [urlOK |-> u,
                     destPath |-> IF o = "downloadAsset" THEN d ELSE ""]
    /\ pc' = "NewRequest"
    /\ requests' = 0
    /\ resp' = NoResp
    /\ deferred' = <<>>
    /\ closes' = 0
    /\ f' = NoFile
    /\ buf' = NoBuf
    /\ fs0' = fs
    /\ ret' = NoRet
    /\ UNCHANGED fs

\* req, err := http.NewRequest("GET", url, nil); if err != nil { return }
NewRequest ==
    /\ pc = "NewRequest"
    /\ IF arg.urlOK
       THEN /\ pc' = "Do"
            /\ UNCHANGED <<ret, closes, f, deferred>>
       ELSE Return(ZeroVal, MkErr("url error"))
    /\ UNCHANGED <<op, arg, requests, resp, buf, fs, fs0>>

\* the defer forgotten
DeferNothing(d) == d

\* defer resp.Body.Close()
DeferBodyClose(d) == Append(d, "resp.Body.Close")

\* the request tried again after a transport failure
TransportErrorRetry ==
    /\ pc' = "Do"
    /\ UNCHANGED <<ret, closes, f, deferred, resp>>

\* resp, err := httpClient.Do(req); if err != nil { return err }
TransportError ==
    /\ Return(ZeroVal, MkErr("transport error"))
    /\ UNCHANGED resp

Do ==
    /\ pc = "Do"
    /\ requests' = requests + 1
    /\ \/ TransportError
       \/ /\ \E s \in Statuses, b \in Bodies(op) :
                resp' = [has |-> TRUE, StatusCode |-> s, Body |-> b]
          /\ deferred' = DeferBodyClose(deferred)
          /\ pc' = "status"
          /\ UNCHANGED <<ret, closes, f>>
    /\ UNCHANGED <<op, arg, buf, fs, fs0>>

\* the two status checks in the other order
hasScriptSwapped ==
    /\ pc = "status"
    /\ op = "hasScript"
    /\ IF resp.StatusCode > 299
       THEN Return(ZeroVal, HandleHTTPError(resp))
       ELSE IF resp.StatusCode = 404
            THEN Return(ZeroVal, Nil)
            ELSE Return([ZeroVal EXCEPT !.hs = TRUE], Nil)
    /\ UNCHANGED <<op, arg, requests, resp, buf, fs, fs0>>

\* hasScript, after Do: the status checks
hasScript ==
    /\ pc = "status"
    /\ op = "hasScript"
    /\ IF resp.StatusCode = 404
       THEN Return(ZeroVal, Nil)
       ELSE IF resp.StatusCode > 299
            THEN Return(ZeroVal, HandleHTTPError(resp))
            ELSE Return([ZeroVal EXCEPT !.hs = TRUE], Nil)
    /\ UNCHANGED <<op, arg, requests, resp, buf, fs, fs0>>

\* downloadAsset, after Do: the status check
downloadAsset ==
    /\ pc = "status"
    /\ op = "downloadAsset"
    /\ IF resp.StatusCode > 299
       THEN Return(ZeroVal, HandleHTTPError(resp))
       ELSE /\ pc' = "OpenFile"
            /\ UNCHANGED <<ret, closes, f, deferred>>
    /\ UNCHANGED <<op, arg, requests, resp, buf, fs, fs0>>

\* os.O_CREATE|os.O_WRONLY, the os.O_TRUNC left out
OpenFileNoTrunc(files, path) ==
    IF files[path].exists THEN files
    ELSE [files EXCEPT ![path] = [exists |-> TRUE, data |-> <<>>]]

\* what os.O_CREATE|os.O_WRONLY|os.O_TRUNC does to the file at path
OpenFile(files, path) ==
    [files EXCEPT ![path] = [exists |-> TRUE, data |-> <<>>]]

\* f.Write(b) at offset off of a file holding data
Write(data, off, b) ==
    SubSeq(data, 1, off) \o b \o SubSeq(data, off + Len(b) + 1, Len(data))

\* f, err := os.OpenFile(destPath, ..., 0755); if err != nil { return err }
\* defer f.Close()
Open ==
    /\ pc = "OpenFile"
    /\ \/ /\ Return(ZeroVal, MkErr("PathError"))
          /\ UNCHANGED fs
       \/ /\ arg.destPath \in Paths
          /\ fs' = OpenFile(fs, arg.destPath)
          /\ f' = [open |-> TRUE, path |-> arg.destPath, off |-> 0]
          /\ deferred' = Append(deferred, "f.Close")
          /\ pc' = "Copy"
          /\ UNCHANGED <<ret, closes>>
    /\ UNCHANGED <<op, arg, requests, resp, buf, fs0>>

\* the destination put back as it was when the copy fails
CopyErrorCleanup(e) ==
    /\ Return(ZeroVal, e)
    /\ fs' = [fs EXCEPT ![f.path] = fs0[f.path]]

\* io.Copy stopped with err: _, err = io.Copy(f, resp.Body); return err
CopyError(e) ==
    /\ Return(ZeroVal, e)
    /\ UNCHANGED fs

\* _, err = io.Copy(f, resp.Body); return err
\* io.Copy reads a chunk and writes it, until the reader reports EOF (nil)
\* or either side reports an error.  A chunk is one byte here.
Copy ==
    /\ pc = "Copy"
    /\ \/ /\ f.off < Len(resp.Body)
          /\ fs' = [fs EXCEPT ![f.path].data =
                        Write(@, f.off, <<resp.Body[f.off + 1]>>)]
          /\ f' = [f EXCEPT !.off = @ + 1]
          /\ UNCHANGED <<ret, closes, deferred, pc>>
       \/ /\ f.off = Len(resp.Body)
          /\ Return(ZeroVal, Nil)
          /\ UNCHANGED fs
       \/ CopyError(MkErr("read error"))
       \/ /\ f.off < Len(resp.Body)
          /\ CopyError(MkErr("write error"))
    /\ UNCHANGED <<op, arg, requests, resp, buf, fs0>>

\* fetchLatestRelease, after Do: the status check
fetchLatestRelease ==
    /\ pc = "status"
    /\ op = "fetchLatestRelease"
    /\ IF resp.StatusCode > 299
       THEN Return(ZeroVal, HandleHTTPError(resp))
       ELSE /\ pc' = "ReadAll"
            /\ UNCHANGED <<ret, closes, f, deferred>>
    /\ UNCHANGED <<op, arg, requests, resp, buf, fs, fs0>>

\* fetchReleaseFromTag, after Do: the status checks
fetchReleaseFromTag ==
    /\ pc = "status"
    /\ op = "fetchReleaseFromTag"
    /\ IF resp.StatusCode = 404
       THEN Return(ZeroVal, releaseNotFoundErr)
       ELSE IF resp.StatusCode > 299
            THEN Return(ZeroVal, HandleHTTPError(resp))
            ELSE /\ pc' = "ReadAll"
                 /\ UNCHANGED <<ret, closes, f, deferred>>
    /\ UNCHANGED <<op, arg, requests, resp, buf, fs, fs0>>

\* fetchCommitSHA, after Do: the status checks
fetchCommitSHA ==
    /\ pc = "status"
    /\ op = "fetchCommitSHA"
    /\ IF resp.StatusCode = 422
       THEN Return(ZeroVal, commitNotFoundErr)
       ELSE IF resp.StatusCode > 299
            THEN Return(ZeroVal, HandleHTTPError(resp))
            ELSE /\ pc' = "ReadAll"
                 /\ UNCHANGED <<ret, closes, f, deferred>>
    /\ UNCHANGED <<op, arg, requests, resp, buf, fs, fs0>>

\* b, err := ioutil.ReadAll(resp.Body); if err != nil { return nil, err }
ReadAll ==
    /\ pc = "ReadAll"
    /\ \/ /\ buf' = [set |-> TRUE, b |-> resp.Body]
          /\ pc' = IF op = "fetchCommitSHA" THEN "string" ELSE "Unmarshal"
          /\ UNCHANGED <<ret, closes, f, deferred>>
       \/ /\ Return(ZeroVal, MkErr("read error"))
          /\ UNCHANGED buf
    /\ UNCHANGED <<op, arg, requests, resp, fs, fs0>>

\* var r release; err = json.Unmarshal(b, &r)
\* if err != nil { return nil, err }; return &r, nil
Decode ==
    /\ pc = "Unmarshal"
    /\ LET u == Unmarshal(buf.b)
       IN  IF u.err # Nil
           THEN Return(ZeroVal, u.err)
           ELSE Return([ZeroVal EXCEPT !.r = u.r], Nil)
    /\ UNCHANGED <<op, arg, requests, resp, buf, fs, fs0>>

\* return string(body), nil
StringBody ==
    /\ pc = "string"
    /\ Return([ZeroVal EXCEPT !.sha = buf.b], Nil)
    /\ UNCHANGED <<op, arg, requests, resp, buf, fs, fs0>>

Next ==
    \/ Call
    \/ NewRequest
    \/ Do
    \/ hasScript
    \/ downloadAsset
    \/ Open
    \/ Copy
    \/ fetchLatestRelease
    \/ fetchReleaseFromTag
    \/ fetchCommitSHA
    \/ ReadAll
    \/ Decode
    \/ StringBody

Spec == Init /\ [][Next]_vars

-----------------------------------------------------------------------------
(* Properties *)

Done(o) == pc = "done" /\ op = o
Status == resp.StatusCode
IsIOError(e) == e.kind \in {"read error", "write error"}

\* C1: hasScript returns (true, nil) on every 2xx status, (false, nil) on
\* 404, the translated API error with exists=false on every other status
\* that is not 2xx, the transport error when the request fails, and never
\* exists=true together with an error.
C1_hasScriptByStatus ==
    Done("hasScript") =>
        /\ resp.has /\ Is2xx(Status) => ret.val.hs /\ ret.err = Nil
        /\ resp.has /\ Status = 404 => ~ret.val.hs /\ ret.err = Nil
        /\ resp.has /\ ~Is2xx(Status) /\ Status # 404 =>
              ~ret.val.hs /\ ret.err = HandleHTTPError(resp)
        /\ requests = 1 /\ ~resp.has =>
              ~ret.val.hs /\ ret.err = MkErr("transport error")
        /\ ~(ret.val.hs /\ ret.err # Nil)

\* C2: on 404 hasScript returns exists=false and a nil error whatever the
\* response body is.
C2_NotFoundWhateverBody ==
    Done("hasScript") /\ resp.has /\ Status = 404 =>
        ~ret.val.hs /\ ret.err = Nil

C2_Witness ==
    /\ Done("hasScript")
    /\ resp.has
    /\ Status = 404
    /\ resp.Body = MessageBody
    /\ ret.err = Nil

\* C3: fetchReleaseFromTag returns releaseNotFoundErr with a nil release
\* exactly on 404, the translated API error (never the sentinel) on every
\* other non-2xx status, and on 200 with a release document that was read
\* in full a nil error and the release of the document.
C3_ReleaseFromTagByStatus ==
    Done("fetchReleaseFromTag") /\ resp.has =>
        /\ ret.err = releaseNotFoundErr <=> Status = 404
        /\ Status = 404 => ret.val.r = NilRelease
        /\ ~Is2xx(Status) /\ Status # 404 => ret.err = HandleHTTPError(resp)
        /\ Status = 200 /\ buf.set =>
              \A r \in release :
                  resp.Body = Encode(r) => ret.err = Nil /\ ret.val.r = r

\* C4: fetchCommitSHA returns commitNotFoundErr with an empty SHA exactly
\* on 422, the translated API error (never the sentinel) on every other
\* non-2xx status, 404 included, and on 200 with a body that was read in
\* full a nil error and the whole body, unchanged, as the SHA.
C4_CommitSHAByStatus ==
    Done("fetchCommitSHA") /\ resp.has =>
        /\ ret.err = commitNotFoundErr <=> Status = 422
        /\ Status = 422 => ret.val.sha = <<>>
        /\ ~Is2xx(Status) /\ Status # 422 => ret.err = HandleHTTPError(resp)
        /\ Status = 200 /\ buf.set => ret.err = Nil /\ ret.val.sha = resp.Body

\* C5: fetchLatestRelease handles no status specially: every non-2xx
\* status yields the translated API error with a nil release and never a
\* sentinel; on 2xx a body that is not JSON yields a decode error with a nil
\* release and a release document yields that release with a nil error.
C5_LatestReleaseByStatus ==
    Done("fetchLatestRelease") /\ resp.has =>
        /\ ret.err \notin {releaseNotFoundErr, commitNotFoundErr}
        /\ ~Is2xx(Status) =>
              ret.err = HandleHTTPError(resp) /\ ret.val.r = NilRelease
        /\ Is2xx(Status) /\ buf.set /\ ~ParseDoc(resp.Body).ok =>
              ret.err.kind = "SyntaxError" /\ ret.val.r = NilRelease
        /\ Is2xx(Status) /\ buf.set =>
              \A r \in release :
                  resp.Body = Encode(r) => ret.err = Nil /\ ret.val.r = r

\* C6: after downloadAsset returns nil the destination file holds exactly
\* the response body, whatever it held before; when the destination cannot
\* be created the filesystem error is returned and no file has changed.
C6_DownloadWritesBody ==
    Done("downloadAsset") =>
        /\ ret.err = Nil =>
              /\ arg.destPath \in Paths
              /\ fs[arg.destPath].exists
              /\ fs[arg.destPath].data = resp.Body
        /\ ret.err.kind = "PathError" => fs = fs0

\* a download that succeeded over a longer file
C6_Witness ==
    /\ Done("downloadAsset")
    /\ ret.err = Nil
    /\ resp.Body # <<>>
    /\ fs0[arg.destPath].exists
    /\ Len(fs0[arg.destPath].data) > Len(resp.Body)

\* C7: whenever Do yielded a response, the body has been closed exactly
\* once when the function has returned, on every return path, and it is
\* never closed twice.
C7_BodyClosedOnce ==
    /\ closes <= 1
    /\ pc = "done" /\ resp.has => closes = 1
    /\ pc = "done" => deferred = <<>>

\* a copy error, the last of the return paths
C7_Witness ==
    /\ Done("downloadAsset")
    /\ ret.err.kind = "write error"
    /\ f.off > 0
    /\ closes = 1

\* C8: an invocation issues at most one request, exactly one when the
\* request could be built, whatever the outcome.
C8_OneRequest ==
    /\ requests <= 1
    /\ pc = "done" => requests = (IF arg.urlOK THEN 1 ELSE 0)
    /\ pc \notin {"idle", "NewRequest", "Do", "done"} => requests = 1

C8_Witness ==
    /\ pc = "done"
    /\ ret.err.kind = "transport error"
    /\ requests = 1

\* the copy stopped after some bytes, with bytes of the body outstanding
Interrupted ==
    /\ Done("downloadAsset")
    /\ f.path # ""
    /\ ret.err # Nil
    /\ 0 < f.off
    /\ f.off < Len(resp.Body)

\* C9: when the copy is interrupted after some bytes were written,
\* downloadAsset returns the I/O error and the destination file stays in
\* place holding the bytes written, a proper prefix of the body.
C9_PartialFileStays ==
    Interrupted =>
        /\ IsIOError(ret.err)
        /\ fs[f.path].exists
        /\ fs[f.path].data = SubSeq(resp.Body, 1, f.off)
        /\ IsPrefix(fs[f.path].data, resp.Body)
        /\ fs[f.path].data # resp.Body

\* interrupted over a file whose old content is no prefix of the body
C9_Witness ==
    /\ Interrupted
    /\ fs0[f.path].exists
    /\ ~IsPrefix(fs0[f.path].data, resp.Body)
    /\ fs[f.path] # fs0[f.path]

\* C10: when the request fails at transport level or the status is not
\* 2xx, downloadAsset returns the error and leaves every file as it was;
\* no file changes before the status check has passed.
C10_NoWriteOnFailure ==
    /\ op = "downloadAsset" /\ pc \in {"NewRequest", "Do", "status"} => fs = fs0
    /\ Done("downloadAsset") /\ requests = 1
           /\ (~resp.has \/ ~Is2xx(Status)) =>
          ret.err # Nil /\ fs = fs0

====
